---- MODULE Spec2Model ----
(***************************************************************************)
(* dclextract: extraction of files from the CMZ, NSK, TSC and ZAR archive  *)
(* formats.  The model follows one call of an exported entry point         *)
(* (extract of package main, or the Extract of one reader package) on one  *)
(* archive, statement group by statement group.                            *)
(*                                                                         *)
(* Spec variants A, B, C, D are the code's CMZ, NSK, TSC and ZAR.          *)
(***************************************************************************)
EXTENDS Integers, Sequences, FiniteSets, TLC

VARIABLES
    src,              \* ghost: the recipe the archive bytes were built from
    stream,           \* the archive file's bytes
    entry,            \* the exported function that was called
    pc,               \* position in the code
    offset,           \* the file cursor of rs / f
    header,           \* extract: header window
    footer,           \* extract: footer window
    fileType,         \* extract: detected type
    reader,           \* which reader's Extract is running ("none" before dispatch)
    allFiles,         \* the reader's allFiles
    processedAnyFile, \* CMZ / NSK: processedAnyFile
    mem,              \* locals of the member loop: compSize, decompSize, fnSize, originalFilename
    versionStr,       \* TSC: versionStr
    ad,               \* ReadAndDecompressBlastData: arguments and compressedData
    adRet,            \* ReadAndDecompressBlastData: returned (data, err)
    blastReader,      \* the blast decoder: opened / closed counters, open flag
    zar,              \* ZAR: h.fSize, bytesRead, headerBytes, pos, count, e
    entries,          \* ZAR: entries
    payloadOff,       \* ghost: the offset each appended member's payload was read from
    results,          \* what the entry point returned: the files
    err,              \* what the entry point returned: the error
    args,             \* main: os.Args[1:]
    exitCode,         \* the status the process ended with (-1: it has not ended)
    reported,         \* main: "Error during extraction" was printed
    written,          \* main: the os.WriteFile calls made, in order
    defaultFileCounter, \* main: defaultFileCounter
    registry,         \* the package variable Signatures of package common
    peer              \* a second extract call of the same process, on another
                      \* stream: "none", "running" or "done"

vars == <<src, stream, entry, pc, offset, header, footer, fileType, reader,
          allFiles, processedAnyFile, mem, versionStr, ad, adRet, blastReader,
          zar, entries, payloadOff, results, err, args, exitCode, reported,
          written, defaultFileCounter, registry, peer>>

----------------------------------------------------------------------------
(* Bounds of the model                                                     *)

\* longest member list an archive recipe holds
MaxMembers == 2
\* largest number of bytes cut from the end of a sequential archive
MaxTrunc == 2

----------------------------------------------------------------------------
(* Bytes and byte strings                                                  *)

Rep(b, n) == [i \in 1..n |-> b]

RECURSIVE Flatten(_)
Flatten(ss) == IF ss = <<>> THEN <<>> ELSE Head(ss) \o Flatten(Tail(ss))

RECURSIVE SumSeq(_)
SumSeq(s) == IF s = <<>> THEN 0 ELSE Head(s) + SumSeq(Tail(s))

Reverse(s) == [i \in 1..Len(s) |-> s[Len(s) + 1 - i]]

\* The model checker's integers are 32 bits wide, Go's int is 64 and a uint32
\* reaches 2^32 - 1.  Sizes of 2^29 and more are kept as 2^29: such a size
\* exceeds the length of every stream of the model, and the code only adds
\* sizes up and compares them with offsets and lengths of the stream.
Huge == 2^29
Clip(n) == IF n > Huge THEN Huge ELSE n

\* binary.LittleEndian.Uint32 / Uint16 and their inverse (used to build archives)
Uint32(b) == IF b[4] >= 32 THEN Huge
             ELSE b[1] + 256 * b[2] + 65536 * b[3] + 16777216 * b[4]
Uint16(b) == b[1] + 256 * b[2]
PutUint32(n) == << n % 256, (n \div 256) % 256, (n \div 65536) % 256,
                  (n \div 16777216) % 256 >>
PutUint16(n) == << n % 256, (n \div 256) % 256 >>

\* bytes.HasPrefix, bytes.HasSuffix
HasPrefix(s, p) == Len(s) >= Len(p) /\ SubSeq(s, 1, Len(p)) = p
HasSuffix(s, p) == Len(s) >= Len(p) /\ SubSeq(s, Len(s) - Len(p) + 1, Len(s)) = p

\* fmt.Sprintf("%d", n): the decimal digits of n as characters
RECURSIVE Decimal(_)
Decimal(n) == IF n < 10 THEN << 48 + n >>
              ELSE Decimal(n \div 10) \o << 48 + (n % 10) >>

----------------------------------------------------------------------------
(* Errors: nil, or a chain of messages (outermost first, as %w wraps) with *)
(* the two numbers the decompression message carries.                      *)

nil == [msg |-> <<>>, n |-> 0, want |-> 0]
Errorf(text) == [msg |-> <<text>>, n |-> 0, want |-> 0]
Wrap(text, e) == [e EXCEPT !.msg = <<text>> \o @]
IsError(e) == e.msg # <<>>
Cause(e) == e.msg[Len(e.msg)]

----------------------------------------------------------------------------
(* The signature registry and header detection (package common)            *)

FileTypes == {"CMZ", "NSK", "TSC", "ZAR"}

\* mutant: the NSK signature is the first two bytes of the CMZ signature
SignaturesOverlapping == [ CMZ |-> <<67, 108, 97, 121>>,
                           NSK |-> <<67, 108>>,
                           TSC |-> <<101, 93, 19, 140, 8>>,
                           ZAR |-> <<80, 84, 38>> ]

\* var Signatures = map[FileType][]byte{...}: the initial value of the registry
Signatures == [ CMZ |-> <<67, 108, 97, 121>>,
                NSK |-> <<78, 83, 75>>,
                TSC |-> <<101, 93, 19, 140, 8>>,
                ZAR |-> <<80, 84, 38>> ]

\* the registry of the older copy of the code (signatures.go)
SignaturesOld == [ CMZ |-> <<67, 108, 97, 121>>,
                   NSK |-> <<78, 83, 75, 26>>,
                   TSC |-> <<101, 93, 19, 140, 8, 1>>,
                   ZAR |-> <<80, 84, 38>> ]

\* mutant: a signature counts as found when its first two bytes match
DetermineFileTypeLoose(data) ==
    LET hit(t) == Len(data) >= 2 /\ SubSeq(data, 1, 2) = SubSeq(registry[t], 1, 2)
    IN  IF hit("CMZ") THEN "CMZ"
        ELSE IF hit("NSK") THEN "NSK"
        ELSE IF hit("TSC") THEN "TSC"
        ELSE IF hit("ZAR") THEN "ZAR"
        ELSE "Unknown"

DetermineFileType(data) ==
    IF HasPrefix(data, registry["CMZ"]) THEN "CMZ"
    ELSE IF HasPrefix(data, registry["NSK"]) THEN "NSK"
    ELSE IF HasPrefix(data, registry["TSC"]) THEN "TSC"
    ELSE IF HasPrefix(data, registry["ZAR"]) THEN "ZAR"
    ELSE "Unknown"

\* common.MaxSignatureLength: the length of the longest signature
MaxSignatureLength ==
    CHOOSE n \in {Len(registry[t]) : t \in FileTypes} :
        \A t \in FileTypes : Len(registry[t]) <= n

\* common.DetermineFileType(header, footer): header patterns first, then the
\* footer pattern of the format whose signature sits at the end (ZAR)
DetermineFileTypeHF(hdr, ftr) ==
    IF DetermineFileType(hdr) # "Unknown" THEN DetermineFileType(hdr)
    ELSE IF HasSuffix(ftr, registry["ZAR"]) THEN "ZAR"
    ELSE "Unknown"

----------------------------------------------------------------------------
(* Reading from the stream                                                 *)

Avail(s, p) == IF p >= Len(s) THEN 0 ELSE Len(s) - p

\* io.ReadFull(rs, buf) with len(buf) = n at cursor p: the bytes, their
\* number, and nil / io.EOF / io.ErrUnexpectedEOF
ReadFull(s, p, n) ==
    LET got == IF Avail(s, p) < n THEN Avail(s, p) ELSE n
    IN  [ n   |-> got,
          buf |-> SubSeq(s, p + 1, p + got),
          err |-> IF got = n THEN nil
                  ELSE IF got = 0 THEN Errorf("EOF")
                  ELSE Errorf("unexpected EOF") ]

\* f.Read(buf) of a file: up to n bytes; io.EOF when n > 0 and none is left
Read(s, p, n) ==
    LET got == IF Avail(s, p) < n THEN Avail(s, p) ELSE n
    IN  [ n   |-> got,
          buf |-> SubSeq(s, p + 1, p + got),
          err |-> IF n > 0 /\ got = 0 THEN Errorf("EOF") ELSE nil ]

----------------------------------------------------------------------------
(* The decompression backend (github.com/JoshVarga/blast), which is not    *)
(* part of the repository.  It is modelled by a small stand-in format with *)
(* the three behaviours the callers can observe: the decoder cannot be     *)
(* created, the decoder yields bytes and ends cleanly, the decoder yields  *)
(* bytes and then fails.  A compressed run is one header byte 0, literal   *)
(* bytes, and the end code 255; bytes after the end code are ignored.      *)

RECURSIVE TakeUntil(_, _)
TakeUntil(s, b) == IF s = <<>> \/ Head(s) = b THEN <<>>
                   ELSE <<Head(s)>> \o TakeUntil(Tail(s), b)

\* blast.NewReader succeeds
BlastHeaderOK(c) == Len(c) >= 1 /\ c[1] = 0
\* the bytes the decoder yields before it ends
BlastOutput(c) == TakeUntil(Tail(c), 255)
\* the decoder ends with io.EOF (the end code was met), not with an error
BlastClean(c) == \E i \in 2..Len(c) : c[i] = 255

\* io.ReadAll(blastReader)
BlastReadAll(c) ==
    IF BlastClean(c) THEN [data |-> BlastOutput(c), n |-> Len(BlastOutput(c)), err |-> nil]
    ELSE [data |-> <<>>, n |-> Len(BlastOutput(c)), err |-> Errorf("unexpected EOF")]

\* io.ReadFull(blastReader, make([]byte, want))
BlastReadFull(c, want) ==
    LET out == BlastOutput(c)
    IN  IF Len(out) >= want
        THEN [data |-> SubSeq(out, 1, want), n |-> want, err |-> nil]
        ELSE [data |-> <<>>, n |-> Len(out),
              err |-> IF Len(out) = 0 /\ BlastClean(c) THEN Errorf("EOF")
                      ELSE Errorf("unexpected EOF")]

----------------------------------------------------------------------------
(* Archive recipes: the inputs the model runs the program on.  A recipe    *)
(* names a format, a list of members (name, compressed payload, declared   *)
(* decompressed size), the value of the reserved bytes, and a defect:      *)
(* bytes cut from the end, or bytes put after the last member.             *)

\* compressed payloads
PayloadA == <<0, 104, 255>>
PayloadB == <<0, 104, 105, 255>>
PayloadNoEnd == <<0, 104>>

Member(name, comp, dsize) == [name |-> name, comp |-> comp, dsize |-> dsize]

\* CMZ and NSK members
SeqMembers ==
    { Member(<<>>, PayloadA, 1),
      Member(<<65>>, PayloadB, 2),
      Member(<<66, 66>>, PayloadB, 0),
      Member(<<65>>, PayloadA, 2),
      Member(<<67>>, PayloadB, 1),
      Member(<<>>, <<>>, 0) }

\* TSC members (the format stores no decompressed size)
TSCMembers ==
    { Member(<<65>>, PayloadA, 0),
      Member(<<>>, PayloadB, 0),
      Member(<<66>>, PayloadNoEnd, 0) }

\* ZAR entries; the last four are a name of the largest length, a name
\* one byte longer, a name holding a byte that looks like a length byte, and
\* a name whose bytes (0x82, 0x00) are no length byte where they stand
ZARMembers ==
    { Member(<<65>>, PayloadA, 0),
      Member(<<66, 66>>, PayloadB, 0),
      Member(<<>>, PayloadA, 0),
      Member(<<65>>, PayloadNoEnd, 0),
      Member(Rep(68, 12), PayloadA, 0),
      Member(Rep(69, 13), PayloadA, 0),
      Member(<<128>>, PayloadA, 0),
      Member(<<130, 0>>, PayloadA, 0) }

Lists(S) == UNION { [1..k -> S] : k \in 0..MaxMembers }

Recipe(kind, ms, trunc, tail, rsv, ver, raw) ==
    [kind |-> kind, members |-> ms, trunc |-> trunc, tail |-> tail,
     rsv |-> rsv, ver |-> ver, raw |-> raw]

\* what may follow the last member of a sequential archive: nothing, the
\* first byte of the magic, the magic with its last byte changed, the magic
Tails(magic) ==
    { <<>>, SubSeq(magic, 1, 1),
      SubSeq(magic, 1, Len(magic) - 1) \o <<120>>, magic }

ReservedValues == {0, 170}

SeqRecipes(kind) ==
    { r \in { Recipe(kind, ms, t, tl, rv, <<1, 0>>, <<>>) :
                ms \in Lists(SeqMembers), t \in 0..MaxTrunc,
                tl \in Tails(Signatures[kind]), rv \in ReservedValues } :
        /\ r.trunc = 0 \/ r.tail = <<>>
        /\ r.trunc > 0 => r.members # <<>> }

TSCRecipes ==
    { r \in { Recipe("TSC", ms, t, tl, rv, ver, <<>>) :
                ms \in Lists(TSCMembers), t \in 0..MaxTrunc,
                tl \in {<<>>, <<7>>}, rv \in ReservedValues,
                ver \in {<<1, 0>>, <<2, 513>>} } :
        r.trunc = 0 \/ r.tail = <<>> }

\* for a ZAR recipe, tail holds the three bytes written where the magic
\* belongs (<<>>: the magic itself)
ZARRecipes ==
    { Recipe("ZAR", ms, 0, tl, rv, <<1, 0>>, <<>>) :
        ms \in Lists(ZARMembers), tl \in {<<>>, <<80, 84, 37>>},
        rv \in ReservedValues }

\* a ZAR archive whose one entry "A" declares 9 payload bytes where only 5
\* bytes precede the directory; those 5 bytes read as an entry themselves (a
\* length byte 0x80 and a size of 0)
ZAROverstated ==
    <<128, 0, 0, 0, 0>> \o <<129, 65>> \o PutUint32(9) \o Rep(0, 4) \o <<80, 84, 38>>

\* streams of no format: empty, short, all zero, near misses, streams that
\* hold the ZAR magic only at their end, and the overstated ZAR archive
RawStreams ==
    { <<>>, <<0>>, Rep(0, 5), Rep(0, 12), <<67, 108>>, <<67, 108, 97, 120, 0>>,
      <<78, 83, 0, 0, 0>>, <<120, 80, 84, 38>>, <<80, 84, 38>>,
      Rep(0, 5) \o <<80, 84, 38>>, ZAROverstated }

RawRecipes == { Recipe("RAW", <<>>, 0, <<>>, 0, <<1, 0>>, s) : s \in RawStreams }

Recipes == SeqRecipes("CMZ") \cup SeqRecipes("NSK") \cup TSCRecipes
           \cup ZARRecipes \cup RawRecipes

\* the on-disk layouts
CMZBytes(m, rsv) ==
    Signatures["CMZ"] \o PutUint32(Len(m.comp)) \o PutUint32(m.dsize)
    \o Rep(rsv, 4) \o <<Len(m.name)>> \o Rep(rsv, 3) \o m.name \o m.comp

NSKBytes(m, rsv) ==
    Signatures["NSK"] \o PutUint32(Len(m.comp)) \o Rep(rsv, 5)
    \o PutUint32(m.dsize) \o <<Len(m.name)>> \o m.name \o m.comp

TSCHeaderBytes(ver, rsv) ==
    Signatures["TSC"] \o <<ver[1]>> \o PutUint16(ver[2]) \o <<rsv>> \o Rep(rsv, 4)

TSCBytes(m, rsv) ==
    <<rsv>> \o PutUint32(Len(m.comp)) \o Rep(rsv, 10) \o <<Len(m.name)>>
    \o m.name \o <<0>> \o m.comp

ZARDirBytes(m) == <<128 + Len(m.name)>> \o m.name \o PutUint32(Len(m.comp))

DropLast(s, k) == SubSeq(s, 1, IF Len(s) >= k THEN Len(s) - k ELSE 0)

Build(r) ==
    LET ms == r.members
        each(f(_)) == Flatten([i \in 1..Len(ms) |-> f(ms[i])])
        cmz(m) == CMZBytes(m, r.rsv)
        nsk(m) == NSKBytes(m, r.rsv)
        tsc(m) == TSCBytes(m, r.rsv)
        pay(m) == m.comp
    IN  CASE r.kind = "CMZ" -> DropLast(each(cmz), r.trunc) \o r.tail
          [] r.kind = "NSK" -> DropLast(each(nsk), r.trunc) \o r.tail
          [] r.kind = "TSC" ->
                DropLast(TSCHeaderBytes(r.ver, r.rsv) \o each(tsc), r.trunc) \o r.tail
          [] r.kind = "ZAR" ->
                each(pay) \o each(ZARDirBytes) \o Rep(r.rsv, 4)
                \o (IF r.tail = <<>> THEN Signatures["ZAR"] ELSE r.tail)
          [] OTHER -> r.raw

----------------------------------------------------------------------------
(* Initial state: a fresh call of an exported entry point on an archive    *)

NoMember == [compSize |-> 0, decompSize |-> 0, fnSize |-> 0, originalFilename |-> <<>>]
NoEntry == [cSize |-> 0, fnSize |-> 0, fnOff |-> 0, fnLenOff |-> 0, fn |-> <<>>]

\* the first statement group of each reader's Extract
FirstStep(r) == CASE r = "TSC" -> "filemagic"
                  [] r = "ZAR" -> "size"
                  [] OTHER -> "magic"

\* the entry points a recipe's stream is handed to: extract of package main,
\* and the Extract of the reader it was built for (every reader for streams
\* of no format)
EntryPoints(r) == IF r.kind = "RAW" THEN {"main", "extract"} \cup FileTypes
                  ELSE {"main", "extract", r.kind}

\* the calls that go through extract
ViaExtract == entry \in {"main", "extract"}

\* the name of the archive on the command line: "a.z"
ArchiveName == <<97, 46, 122>>

\* the argument lists main is started with; the wrong counts are tried on
\* the streams of no format only
ArgLists(r) == IF r.kind = "RAW" THEN {<<>>, <<ArchiveName>>, <<ArchiveName, ArchiveName>>}
               ELSE {<<ArchiveName>>}

Init ==
    /\ src \in Recipes
    /\ stream = Build(src)
    /\ entry \in EntryPoints(src)
    /\ args \in IF entry = "main" THEN ArgLists(src) ELSE {<<ArchiveName>>}
    /\ pc = CASE entry = "main" -> "main"
              [] entry = "extract" -> "detect"
              [] OTHER -> FirstStep(entry)
    /\ reader = IF ViaExtract THEN "none" ELSE entry
    /\ exitCode = -1
    /\ reported = FALSE
    /\ written = <<>>
    /\ defaultFileCounter = 0
    /\ registry = Signatures
    /\ peer \in IF entry = "extract" THEN {"none", "running"} ELSE {"none"}
    /\ offset = 0
    /\ header = <<>>
    /\ footer = <<>>
    /\ fileType = "none"
    /\ allFiles = <<>>
    /\ processedAnyFile = FALSE
    /\ mem = NoMember
    /\ versionStr = <<>>
    /\ ad = [compSize |-> 0, decompSize |-> 0, compressedData |-> <<>>, start |-> 0]
    /\ adRet = [data |-> <<>>, err |-> nil]
    /\ blastReader = [open |-> FALSE, opened |-> 0, closed |-> 0]
    /\ zar = [fSize |-> 0, bytesRead |-> 0, headerBytes |-> 0, pos |-> 0,
              count |-> 0, e |-> NoEntry]
    /\ entries = <<>>
    /\ payloadOff = <<>>
    /\ results = <<>>
    /\ err = nil

\* a reader's Extract returns (files, e): to extract, or to the caller
Return(files, e) ==
    /\ results' = files
    /\ err' = e
    /\ pc' = IF ViaExtract THEN "extract_ret" ELSE "done"

readerVars == <<allFiles, processedAnyFile, mem, versionStr, ad, adRet,
                blastReader, zar, entries, payloadOff>>
detectVars == <<header, footer, fileType, reader>>
\* what no step of this call writes: its inputs, the signatures, and the
\* other call
inputVars == <<src, stream, entry, args, registry, peer>>
mainVars == <<exitCode, reported, written, defaultFileCounter>>

\* where extract returns to: main, or the caller of extract
ExtractReturnsTo == IF entry = "main" THEN "main_check" ELSE "done"

----------------------------------------------------------------------------
(* package main: extract                                                   *)

\* header := make([]byte, MaxSignatureLength); n := f.Read(header); header[:n]
HeaderWindow(s) == Read(s, 0, MaxSignatureLength).buf

\* mutant: the footer window is read whatever the file size
FooterWindowAlways(s) ==
    SubSeq(s, IF Len(s) >= MaxSignatureLength THEN Len(s) - MaxSignatureLength + 1 ELSE 1,
           Len(s))

\* the footer window: read only when fileSize >= MaxSignatureLength
FooterWindow(s) ==
    IF Len(s) >= MaxSignatureLength
    THEN SubSeq(s, Len(s) - MaxSignatureLength + 1, Len(s))
    ELSE <<>>

\* mutant: the default case of the switch falls into the CMZ reader
ReaderForDefaultCMZ(ft) == IF ft \in FileTypes THEN ft ELSE "CMZ"

\* the switch on fileType: the reader that is called, "none" for the default case
ReaderFor(ft) == IF ft \in FileTypes THEN ft ELSE "none"

\* file size, header and footer windows, detection, rewind
extract_detect ==
    /\ ViaExtract /\ pc = "detect"
    /\ header' = HeaderWindow(stream)
    /\ footer' = FooterWindow(stream)
    /\ fileType' = DetermineFileTypeHF(HeaderWindow(stream), FooterWindow(stream))
    /\ offset' = 0
    /\ pc' = "dispatch"
    /\ UNCHANGED <<inputVars, mainVars, reader, readerVars, results, err>>

\* switch fileType { ... default: return nil, "unknown file type" }
extract_dispatch ==
    /\ ViaExtract /\ pc = "dispatch"
    /\ reader' = ReaderFor(fileType)
    /\ IF ReaderFor(fileType) = "none"
       THEN /\ pc' = ExtractReturnsTo
            /\ results' = <<>>
            /\ err' = Errorf("unknown file type")
       ELSE /\ pc' = FirstStep(ReaderFor(fileType))
            /\ UNCHANGED <<results, err>>
    /\ UNCHANGED <<inputVars, mainVars, offset, header, footer, fileType, readerVars>>

\* if err != nil { return results, err }; return results, nil
extract_return ==
    /\ ViaExtract /\ pc = "extract_ret"
    /\ pc' = ExtractReturnsTo
    /\ UNCHANGED <<inputVars, mainVars, offset, detectVars, readerVars, results, err>>

----------------------------------------------------------------------------
(* package main: main                                                      *)

\* the last index of byte b in s, 0 when s does not hold it
LastIndex(s, b) ==
    IF \E i \in 1..Len(s) : s[i] = b
    THEN CHOOSE i \in 1..Len(s) : s[i] = b /\ \A j \in (i + 1)..Len(s) : s[j] # b
    ELSE 0

\* filepath.Base, for a path that does not end with a separator
Base(path) == IF path = <<>> THEN <<46>>
              ELSE SubSeq(path, LastIndex(path, 47) + 1, Len(path))

\* filepath.Ext: the suffix of the base name that starts at its last dot
Ext(base) == IF LastIndex(base, 46) = 0 THEN <<>>
             ELSE SubSeq(base, LastIndex(base, 46), Len(base))

\* strings.TrimSuffix
TrimSuffix(s, suffix) == IF HasSuffix(s, suffix) THEN SubSeq(s, 1, Len(s) - Len(suffix))
                         ELSE s

\* "extracted_file"
DefaultBaseName == <<101, 120, 116, 114, 97, 99, 116, 101, 100, 95, 102, 105, 108, 101>>

\* the name the i-th item (from 0) of n is written under
OutputName(item, i, n, inputFilename, counter) ==
    IF item.Filename # <<>> THEN item.Filename
    ELSE LET base == Base(inputFilename)
             trimmed == TrimSuffix(base, Ext(base))
             baseName == IF trimmed = <<>> THEN DefaultBaseName ELSE trimmed
         IN  IF n = 1 /\ i = 0 THEN baseName
             ELSE baseName \o <<95>> \o Decimal(counter)

\* os.Exit(code), or the return of main
Exit(code) == exitCode' = code /\ pc' = "main_done"

\* if len(os.Args) != 2 { usage; os.Exit(1) }; extract(os.Args[1])
main_args ==
    /\ entry = "main" /\ pc = "main"
    /\ IF Len(args) + 1 # 2
       THEN Exit(1)
       ELSE pc' = "detect" /\ UNCHANGED exitCode
    /\ UNCHANGED <<inputVars, reported, written, defaultFileCounter, offset,
                   detectVars, readerVars, results, err>>

\* the error report, and the exits taken when nothing was extracted
main_check ==
    /\ entry = "main" /\ pc = "main_check"
    /\ reported' = IsError(err)
    /\ IF IsError(err) /\ Len(results) = 0 THEN Exit(1)
       ELSE IF Len(results) = 0 THEN Exit(0)
       ELSE pc' = "main_write" /\ UNCHANGED exitCode
    /\ UNCHANGED <<inputVars, written, defaultFileCounter, offset, detectVars,
                   readerVars, results, err>>

\* one turn of the loop that writes the extracted files; os.WriteFile may
\* fail, which is reported and changes nothing else; main returns after the
\* last item
main_write ==
    /\ entry = "main" /\ pc = "main_write"
    /\ IF Len(written) < Len(results)
       THEN LET i == Len(written)
                item == results[i + 1]
            IN  /\ \E ok \in BOOLEAN :
                     written' = Append(written,
                        [index |-> i,
                         name |-> OutputName(item, i, Len(results), args[1],
                                             defaultFileCounter),
                         data |-> item.Data, ok |-> ok])
                /\ defaultFileCounter' = IF item.Filename = <<>>
                                         THEN defaultFileCounter + 1
                                         ELSE defaultFileCounter
                /\ UNCHANGED <<pc, exitCode>>
       ELSE Exit(0) /\ UNCHANGED <<written, defaultFileCounter>>
    /\ UNCHANGED <<inputVars, reported, offset, detectVars, readerVars, results, err>>

----------------------------------------------------------------------------
(* package common: ReadFileMagic, ReadFilename, ReadAndDecompressBlastData *)

ReadFileMagic(s, p, expectedMagic) ==
    LET rf == ReadFull(s, p, Len(expectedMagic))
    IN  [ n   |-> rf.n,
          err |-> IF IsError(rf.err) THEN rf.err
                  ELSE IF rf.buf # expectedMagic THEN Errorf("magic bytes mismatch")
                  ELSE nil ]

ReadFilename(s, p, fnSize) ==
    IF fnSize = 0 THEN [name |-> <<>>, n |-> 0, err |-> nil]
    ELSE LET rf == ReadFull(s, p, fnSize)
         IN  IF IsError(rf.err)
             THEN [name |-> <<>>, n |-> rf.n, err |-> Wrap("reading filename", rf.err)]
             ELSE [name |-> rf.buf, n |-> rf.n, err |-> nil]

\* mutant: a short decode hands back the bytes it got, without an error
DecompressPartial(c, decompSize) ==
    LET r == IF decompSize = 0 THEN BlastReadAll(c) ELSE BlastReadFull(c, decompSize)
    IN  [data |-> BlastOutput(c), err |-> nil]

\* mutant: the output buffer always has the declared size, also when it is 0
DecompressDeclared(c, decompSize) ==
    LET r == BlastReadFull(c, decompSize)
    IN  IF IsError(r.err)
        THEN [data |-> <<>>,
              err |-> [msg |-> <<"decompressing data (read n of want bytes)">> \o r.err.msg,
                       n |-> r.n, want |-> decompSize]]
        ELSE [data |-> r.data, err |-> nil]

\* what the decoder's output becomes: io.ReadAll when decompSize = 0, else
\* io.ReadFull into decompSize bytes; an error carries (n, decompSize)
Decompress(c, decompSize) ==
    LET r == IF decompSize = 0 THEN BlastReadAll(c) ELSE BlastReadFull(c, decompSize)
    IN  IF IsError(r.err)
        THEN [data |-> <<>>,
              err |-> IF decompSize = 0
                      THEN Wrap("decompressing data with unknown size", r.err)
                      ELSE [msg |-> <<"decompressing data (read n of want bytes)">> \o r.err.msg,
                            n |-> r.n, want |-> decompSize]]
        ELSE [data |-> r.data, err |-> nil]

\* mutant: the result of reading the compressed bytes is not checked
ReadCompressedUnchecked(s, p, compSize) == [ReadFull(s, p, compSize) EXCEPT !.err = nil]

\* mutant: the read takes one byte more from the stream than it returns
ReadCompressedGreedy(s, p, compSize) == [ReadFull(s, p, compSize) EXCEPT !.n = @ + 1]

\* compressedData := make([]byte, compSize); io.ReadFull(rs, compressedData)
ReadCompressed(s, p, compSize) == ReadFull(s, p, compSize)

\* the read of the compressed bytes, and the return when it fails
Adapter_read ==
    /\ pc = "ad_read"
    /\ LET rf == ReadCompressed(stream, offset, ad.compSize)
       IN  /\ offset' = offset + rf.n
           /\ IF IsError(rf.err)
              THEN /\ adRet' = [data |-> <<>>, err |-> Wrap("reading compressed data", rf.err)]
                   /\ pc' = "append"
                   /\ UNCHANGED ad
              ELSE /\ ad' = [ad EXCEPT !.compressedData = rf.buf]
                   /\ pc' = "ad_new"
                   /\ UNCHANGED adRet
    /\ UNCHANGED <<inputVars, mainVars, detectVars, allFiles, processedAnyFile, mem, versionStr,
                   blastReader, zar, entries, payloadOff, results, err>>

\* blastReader, err := blast.NewReader(...); defer blastReader.Close()
Adapter_newReader ==
    /\ pc = "ad_new"
    /\ IF BlastHeaderOK(ad.compressedData)
       THEN /\ blastReader' = [blastReader EXCEPT !.open = TRUE, !.opened = @ + 1]
            /\ pc' = "ad_decode"
            /\ UNCHANGED adRet
       ELSE /\ adRet' = [data |-> <<>>,
                         err |-> Wrap("creating blast reader", Errorf("blast: bad header"))]
            /\ pc' = "append"
            /\ UNCHANGED blastReader
    /\ UNCHANGED <<inputVars, mainVars, offset, detectVars, allFiles, processedAnyFile, mem,
                   versionStr, ad, zar, entries, payloadOff, results, err>>

\* mutant: the deferred Close is missing
CloseSkipped(br) == br

\* defer blastReader.Close(), run when the adapter returns
DeferredClose(br) == [br EXCEPT !.open = FALSE, !.closed = @ + 1]

\* the read of the decoder, the return, and the deferred Close
Adapter_decode ==
    /\ pc = "ad_decode"
    /\ adRet' = Decompress(ad.compressedData, ad.decompSize)
    /\ blastReader' = DeferredClose(blastReader)
    /\ pc' = "append"
    /\ UNCHANGED <<inputVars, mainVars, offset, detectVars, allFiles, processedAnyFile, mem,
                   versionStr, ad, zar, entries, payloadOff, results, err>>

ExtractedFileData(name, data, compSize, decompSize, version) ==
    [Filename |-> name, Data |-> data, CompressedSize |-> compSize,
     DecompressedSize |-> decompSize, Version |-> version]

----------------------------------------------------------------------------
(* packages cmz and nsk: Extract                                           *)

\* mutant: the name length is taken from the byte before the right one
readCMZMemberMetadataShifted(md) ==
    [compSize |-> Uint32(SubSeq(md, 1, 4)), decompSize |-> Uint32(SubSeq(md, 5, 8)),
     fnSize |-> md[12], originalFilename |-> <<>>]

\* readCMZMemberMetadata: the fields of the 16-byte block
readCMZMemberMetadata(md) ==
    [compSize |-> Uint32(SubSeq(md, 1, 4)), decompSize |-> Uint32(SubSeq(md, 5, 8)),
     fnSize |-> md[13], originalFilename |-> <<>>]

\* mutant: the decompressed size is taken one byte early
readNSKMemberMetadataShifted(md) ==
    [compSize |-> Uint32(SubSeq(md, 1, 4)), decompSize |-> Uint32(SubSeq(md, 9, 12)),
     fnSize |-> md[14], originalFilename |-> <<>>]

\* readNSKMemberMetadata: the fields of the 14-byte block
readNSKMemberMetadata(md) ==
    [compSize |-> Uint32(SubSeq(md, 1, 4)), decompSize |-> Uint32(SubSeq(md, 10, 13)),
     fnSize |-> md[14], originalFilename |-> <<>>]

MetadataLen(r) == IF r = "CMZ" THEN 16 ELSE 14

\* mutant: a zero-byte end of stream ends the loop whether or not a member was read
MagicReturnNoFlag(r, br, e, processed) ==
    IF Cause(e) = "EOF" /\ br = 0 THEN nil
    ELSE Wrap(r \o ": failed to read member header", e)

\* mutant: bytes that are not the magic end the archive once a member was read
MagicReturnMismatchEnds(r, br, e, processed) ==
    IF processed /\ (Cause(e) = "magic bytes mismatch" \/ (br = 0 /\ Cause(e) = "EOF"))
    THEN nil
    ELSE Wrap(r \o ": failed to read member header", e)

\* what Extract returns when ReadFileMagic failed with e after br bytes
MagicReturn(r, br, e, processed) ==
    IF Cause(e) \in {"EOF", "unexpected EOF"}
    THEN IF br = 0 /\ processed /\ Cause(e) = "EOF" THEN nil
         ELSE IF processed
              THEN Wrap(r \o ": unexpected end of archive while expecting next member header", e)
              ELSE Wrap(r \o ": failed to read member header", e)
    ELSE Wrap(r \o ": error reading member magic", e)

\* 1. read the member magic
Seq_magic(r) ==
    /\ reader = r /\ pc = "magic"
    /\ LET rd == ReadFileMagic(stream, offset, registry[r])
       IN  /\ offset' = offset + rd.n
           /\ IF IsError(rd.err)
              THEN /\ Return(allFiles, MagicReturn(r, rd.n, rd.err, processedAnyFile))
                   /\ UNCHANGED processedAnyFile
              ELSE /\ processedAnyFile' = TRUE
                   /\ pc' = "meta"
                   /\ UNCHANGED <<results, err>>
    /\ UNCHANGED <<inputVars, mainVars, detectVars, allFiles, mem, versionStr, ad, adRet,
                   blastReader, zar, entries, payloadOff>>

\* 2. read the metadata block
Seq_metadata(r) ==
    /\ reader = r /\ pc = "meta"
    /\ LET rf == ReadFull(stream, offset, MetadataLen(r))
       IN  /\ offset' = offset + rf.n
           /\ IF IsError(rf.err)
              THEN /\ Return(allFiles, Wrap(r \o ": reading member metadata",
                                            Wrap(IF r = "CMZ" THEN "reading metadata"
                                                 ELSE "reading nsk metadata block",
                                                 rf.err)))
                   /\ UNCHANGED mem
              ELSE /\ mem' = IF r = "CMZ" THEN readCMZMemberMetadata(rf.buf)
                             ELSE readNSKMemberMetadata(rf.buf)
                   /\ pc' = "name"
                   /\ UNCHANGED <<results, err>>
    /\ UNCHANGED <<inputVars, mainVars, detectVars, allFiles, processedAnyFile, versionStr, ad,
                   adRet, blastReader, zar, entries, payloadOff>>

\* 3. read the filename; 4. hand the payload to ReadAndDecompressBlastData
Seq_filename(r) ==
    /\ reader = r /\ pc = "name"
    /\ LET rn == ReadFilename(stream, offset, mem.fnSize)
       IN  /\ offset' = offset + rn.n
           /\ IF IsError(rn.err)
              THEN /\ Return(allFiles, Wrap(r \o ": reading member filename", rn.err))
                   /\ UNCHANGED <<mem, ad>>
              ELSE /\ mem' = [mem EXCEPT !.originalFilename = rn.name]
                   /\ ad' = [compSize |-> mem.compSize, decompSize |-> mem.decompSize,
                             compressedData |-> <<>>, start |-> offset + rn.n]
                   /\ pc' = "ad_read"
                   /\ UNCHANGED <<results, err>>
    /\ UNCHANGED <<inputVars, mainVars, detectVars, allFiles, processedAnyFile, versionStr,
                   adRet, blastReader, zar, entries, payloadOff>>

\* the adapter returned: return on error, else append the member and loop
Seq_append(r) ==
    /\ reader = r /\ pc = "append"
    /\ IF IsError(adRet.err)
       THEN /\ Return(allFiles, Wrap(r \o ": processing data for member", adRet.err))
            /\ UNCHANGED <<allFiles, payloadOff>>
       ELSE /\ allFiles' = Append(allFiles,
                  ExtractedFileData(mem.originalFilename, adRet.data, mem.compSize,
                                    mem.decompSize, <<>>))
            /\ payloadOff' = Append(payloadOff, ad.start)
            /\ pc' = "magic"
            /\ UNCHANGED <<results, err>>
    /\ UNCHANGED <<inputVars, mainVars, offset, detectVars, processedAnyFile, mem, versionStr,
                   ad, adRet, blastReader, zar, entries>>

cmz_Extract_magic == Seq_magic("CMZ")
cmz_Extract_metadata == Seq_metadata("CMZ")
cmz_Extract_filename == Seq_filename("CMZ")
cmz_Extract_append == Seq_append("CMZ")

nsk_Extract_magic == Seq_magic("NSK")
nsk_Extract_metadata == Seq_metadata("NSK")
nsk_Extract_filename == Seq_filename("NSK")
nsk_Extract_append == Seq_append("NSK")

----------------------------------------------------------------------------
(* package tsc: Extract                                                    *)

\* readTSCMemberHeader: the fields of the 16-byte member header
\* mutant: the compressed size is read one byte too early
readTSCMemberHeaderShifted(hd) ==
    [compSize |-> Uint32(SubSeq(hd, 1, 4)), decompSize |-> 0,
     fnSize |-> hd[16], originalFilename |-> <<>>]

readTSCMemberHeader(hd) ==
    [compSize |-> Uint32(SubSeq(hd, 2, 5)), decompSize |-> 0,
     fnSize |-> hd[16], originalFilename |-> <<>>]

\* mutant: the minor version is read high byte first
VersionStringBigEndian(versionBytes) ==
    Decimal(versionBytes[1]) \o <<46>> \o Decimal(versionBytes[2] * 256 + versionBytes[3])

\* fmt.Sprintf("%d.%d", majorVersion, minorVersion)
VersionString(versionBytes) ==
    Decimal(versionBytes[1]) \o <<46>> \o Decimal(Uint16(SubSeq(versionBytes, 2, 3)))

\* 1. the file-level magic
tsc_Extract_filemagic ==
    /\ reader = "TSC" /\ pc = "filemagic"
    /\ LET rd == ReadFileMagic(stream, offset, registry["TSC"])
       IN  /\ offset' = offset + rd.n
           /\ IF IsError(rd.err)
              THEN Return(<<>>, Wrap("TSC: reading file magic", rd.err))
              ELSE pc' = "version" /\ UNCHANGED <<results, err>>
    /\ UNCHANGED <<inputVars, mainVars, detectVars, readerVars>>

\* 2. the file-level version
tsc_Extract_version ==
    /\ reader = "TSC" /\ pc = "version"
    /\ LET rf == ReadFull(stream, offset, 3)
       IN  /\ offset' = offset + rf.n
           /\ IF IsError(rf.err)
              THEN /\ Return(<<>>, Wrap("TSC: reading version info", rf.err))
                   /\ UNCHANGED versionStr
              ELSE /\ versionStr' = VersionString(rf.buf)
                   /\ pc' = "wildcard"
                   /\ UNCHANGED <<results, err>>
    /\ UNCHANGED <<inputVars, mainVars, detectVars, allFiles, processedAnyFile, mem, ad, adRet,
                   blastReader, zar, entries, payloadOff>>

\* 3. the wildcard byte; 4. seek past the 4 reserved bytes
tsc_Extract_wildcard ==
    /\ reader = "TSC" /\ pc = "wildcard"
    /\ LET rf == ReadFull(stream, offset, 1)
       IN  IF IsError(rf.err)
           THEN /\ offset' = offset + rf.n
                /\ Return(<<>>, Wrap("TSC: reading wildcard value", rf.err))
           ELSE /\ offset' = offset + rf.n + 4
                /\ pc' = "header"
                /\ UNCHANGED <<results, err>>
    /\ UNCHANGED <<inputVars, mainVars, detectVars, readerVars>>

\* 5. the header of the next member; a clean io.EOF ends the loop
tsc_Extract_header ==
    /\ reader = "TSC" /\ pc = "header"
    /\ LET rf == ReadFull(stream, offset, 16)
       IN  /\ offset' = offset + rf.n
           /\ IF IsError(rf.err)
              THEN /\ Return(allFiles,
                             IF Cause(rf.err) = "EOF" THEN nil
                             ELSE Wrap("TSC: reading member header",
                                       Wrap("reading TSC member header block", rf.err)))
                   /\ UNCHANGED mem
              ELSE /\ mem' = readTSCMemberHeader(rf.buf)
                   /\ pc' = "name"
                   /\ UNCHANGED <<results, err>>
    /\ UNCHANGED <<inputVars, mainVars, detectVars, allFiles, processedAnyFile, versionStr, ad,
                   adRet, blastReader, zar, entries, payloadOff>>

\* 6. the filename of fnSize+1 bytes; 7. hand the payload to the adapter
tsc_Extract_filename ==
    /\ reader = "TSC" /\ pc = "name"
    /\ LET rn == ReadFilename(stream, offset, mem.fnSize + 1)
       IN  /\ offset' = offset + rn.n
           /\ IF IsError(rn.err)
              THEN /\ Return(allFiles, Wrap("TSC: reading member filename", rn.err))
                   /\ UNCHANGED <<mem, ad>>
              ELSE /\ mem' = [mem EXCEPT !.originalFilename = rn.name]
                   /\ ad' = [compSize |-> mem.compSize, decompSize |-> 0,
                             compressedData |-> <<>>, start |-> offset + rn.n]
                   /\ pc' = "ad_read"
                   /\ UNCHANGED <<results, err>>
    /\ UNCHANGED <<inputVars, mainVars, detectVars, allFiles, processedAnyFile, versionStr,
                   adRet, blastReader, zar, entries, payloadOff>>

\* the adapter returned: return on error, else append the member and loop
tsc_Extract_append ==
    /\ reader = "TSC" /\ pc = "append"
    /\ IF IsError(adRet.err)
       THEN /\ Return(allFiles, Wrap("TSC: processing data for member", adRet.err))
            /\ UNCHANGED <<allFiles, payloadOff>>
       ELSE /\ allFiles' = Append(allFiles,
                  ExtractedFileData(mem.originalFilename, adRet.data, mem.compSize,
                                    Len(adRet.data), versionStr))
            /\ payloadOff' = Append(payloadOff, ad.start)
            /\ pc' = "header"
            /\ UNCHANGED <<results, err>>
    /\ UNCHANGED <<inputVars, mainVars, offset, detectVars, processedAnyFile, mem, versionStr,
                   ad, adRet, blastReader, zar, entries>>

----------------------------------------------------------------------------
(* package zar: Extract                                                    *)

zarFooterLen == 7

\* the largest filename length Extract accepts
zarMaxNameLen == 12

\* mutant: the entries stay in the order the backward walk found them
KeepScanOrder(es) == es

\* the loop that reverses the entries slice
ReverseEntries(es) == Reverse(es)

\* mutant: the walk ends after the first entry
WalkDoneAtOnce(bytesRead, fSize) == TRUE

\* mutant: the walk also ends when the count has passed the stream length
WalkDoneAtLeast(bytesRead, fSize) == bytesRead >= fSize

\* if bytesRead == h.fSize: the condition that ends the directory walk
WalkDone(bytesRead, fSize) == bytesRead = fSize

\* mutant: a read before the start of the stream gives zero bytes and leaves
\* the cursor where it is
readBackStuck(s, p, n) ==
    IF p - n < 0 THEN [buf |-> Rep(0, n), err |-> nil, pos |-> p]
    ELSE [buf |-> SubSeq(s, p - n + 1, p), err |-> nil, pos |-> p - n]

\* readBack: seek n bytes back, read them, seek n bytes back again; the
\* first seek fails before the start of the stream
readBack(s, p, n) ==
    IF p - n < 0 THEN [buf |-> <<>>, err |-> Errorf("negative position"), pos |-> p]
    ELSE [buf |-> SubSeq(s, p - n + 1, p), err |-> nil, pos |-> p - n]

\* fs := rs.Seek(0, io.SeekEnd); h := &header{fSize: int(fs)}
zar_Extract_size ==
    /\ reader = "ZAR" /\ pc = "size"
    /\ offset' = Len(stream)
    /\ zar' = [zar EXCEPT !.fSize = Len(stream)]
    /\ pc' = "trailer"
    /\ UNCHANGED <<inputVars, mainVars, detectVars, allFiles, processedAnyFile, mem, versionStr,
                   ad, adRet, blastReader, entries, payloadOff, results, err>>

\* Seek(-3, End); Read(h.id); Seek(-7, Current).  h.id is not compared with
\* the signature.
zar_Extract_trailer ==
    /\ reader = "ZAR" /\ pc = "trailer"
    /\ IF zar.fSize - 3 < 0
       THEN /\ Return(<<>>, Wrap("ZAR: could not seek to the end of the file",
                                 Errorf("negative position")))
            /\ UNCHANGED <<offset, zar>>
       ELSE IF zar.fSize - 7 < 0
       THEN /\ Return(<<>>, Wrap("ZAR: could not seek backwards 7 bytes",
                                 Errorf("negative position")))
            /\ offset' = zar.fSize
            /\ zar' = [zar EXCEPT !.bytesRead = 3]
       ELSE /\ offset' = zar.fSize - 7
            /\ zar' = [zar EXCEPT !.bytesRead = 7]
            /\ pc' = "entry"
            /\ UNCHANGED <<results, err>>
    /\ UNCHANGED <<inputVars, mainVars, detectVars, allFiles, processedAnyFile, mem, versionStr,
                   ad, adRet, blastReader, entries, payloadOff>>

\* buf := readBack(rs, 4): the entry's compressed size; pos := fTell(rs);
\* count := h.fSize - zarFooterLen - headerBytes
zar_Extract_entry ==
    /\ reader = "ZAR" /\ pc = "entry"
    /\ LET rb == readBack(stream, offset, 4)
       IN  IF IsError(rb.err)
           THEN /\ Return(<<>>, Wrap("ZAR: could not read compressed size", rb.err))
                /\ UNCHANGED <<offset, zar>>
           ELSE /\ offset' = rb.pos
                /\ zar' = [zar EXCEPT
                             !.e = [NoEntry EXCEPT !.cSize = Uint32(rb.buf)],
                             !.bytesRead = @ + 4,
                             !.pos = rb.pos,
                             !.count = zar.fSize - zarFooterLen - zar.headerBytes]
                /\ pc' = "scan"
                /\ UNCHANGED <<results, err>>
    /\ UNCHANGED <<inputVars, mainVars, detectVars, allFiles, processedAnyFile, mem, versionStr,
                   ad, adRet, blastReader, entries, payloadOff>>

\* mutant: the length byte is looked for one position late
SentinelLate(b, pos, count) == b - 128 = pos - count + 3

\* mutant: the first byte of 0x80 or more ends the scan
SentinelAnyHighByte(b, pos, count) == b >= 128

\* bv := int(buf[0]) - 0x80; pc := int(pos) - count + 4; if bv == pc
IsSentinel(b, pos, count) == b - 128 = pos - count + 4

\* one turn of the filename scan: buf := readBack(rs, 1); bv := buf[0] - 0x80;
\* pc := pos - count + 4; the byte is the length byte when bv = pc
zar_Extract_scan ==
    /\ reader = "ZAR" /\ pc = "scan"
    /\ LET rb == readBack(stream, offset, 1)
       IN  IF IsError(rb.err)
           THEN /\ Return(<<>>, Wrap("ZAR: could not read filename byte", rb.err))
                /\ UNCHANGED <<offset, zar>>
           ELSE LET bv == rb.buf[1] - 128
                IN  /\ offset' = rb.pos
                    /\ IF IsSentinel(rb.buf[1], zar.pos, zar.count)
                       THEN /\ zar' = [zar EXCEPT
                                         !.e = [@ EXCEPT !.fnSize = bv,
                                                         !.fnLenOff = rb.pos,
                                                         !.fnOff = rb.pos + 1],
                                         !.pos = rb.pos,
                                         !.headerBytes = @ + bv + 4 + 1,
                                         !.bytesRead = @ + bv + 1]
                            /\ pc' = "check"
                       ELSE /\ zar' = [zar EXCEPT !.count = @ - 1]
                            /\ pc' = "scan"
                    /\ UNCHANGED <<results, err>>
    /\ UNCHANGED <<inputVars, mainVars, detectVars, allFiles, processedAnyFile, mem, versionStr,
                   ad, adRet, blastReader, entries, payloadOff>>

\* if e.fnSize > 12 { fmt.Fprintf(os.Stderr, ...); os.Exit(1) }
zar_Extract_check ==
    /\ reader = "ZAR" /\ pc = "check"
    /\ IF zar.e.fnSize > zarMaxNameLen
       THEN pc' = "exited" /\ exitCode' = 1
       ELSE pc' = "name" /\ UNCHANGED exitCode
    /\ UNCHANGED <<inputVars, reported, written, defaultFileCounter, offset,
                   detectVars, readerVars, results, err>>

\* read the filename at e.fnOff, seek to e.fnLenOff, count the payload,
\* append the entry; the walk ends when bytesRead == h.fSize
zar_Extract_name ==
    /\ reader = "ZAR" /\ pc = "name"
    /\ LET e == [zar.e EXCEPT !.fn = Read(stream, zar.e.fnOff, zar.e.fnSize).buf]
           total == Clip(zar.bytesRead + e.cSize)
       IN  /\ zar' = [zar EXCEPT !.e = e, !.bytesRead = total]
           /\ entries' = Append(entries, e)
           /\ IF WalkDone(total, zar.fSize)
              THEN offset' = 0 /\ pc' = "reverse"
              ELSE offset' = e.fnLenOff /\ pc' = "entry"
    /\ UNCHANGED <<inputVars, mainVars, detectVars, allFiles, processedAnyFile, mem, versionStr,
                   ad, adRet, blastReader, payloadOff, results, err>>

\* reverse the entries slice
zar_Extract_reverse ==
    /\ reader = "ZAR" /\ pc = "reverse"
    /\ entries' = ReverseEntries(entries)
    /\ pc' = "payload"
    /\ UNCHANGED <<inputVars, mainVars, offset, detectVars, allFiles, processedAnyFile, mem,
                   versionStr, ad, adRet, blastReader, zar, payloadOff, results, err>>

\* for _, entry := range entries: hand the next payload to the adapter;
\* after the last entry return allFiles, nil
zar_Extract_payload ==
    /\ reader = "ZAR" /\ pc = "payload"
    /\ IF Len(allFiles) < Len(entries)
       THEN /\ ad' = [compSize |-> entries[Len(allFiles) + 1].cSize, decompSize |-> 0,
                      compressedData |-> <<>>, start |-> offset]
            /\ pc' = "ad_read"
            /\ UNCHANGED <<results, err>>
       ELSE /\ Return(allFiles, nil)
            /\ UNCHANGED ad
    /\ UNCHANGED <<inputVars, mainVars, offset, detectVars, allFiles, processedAnyFile, mem,
                   versionStr, adRet, blastReader, zar, entries, payloadOff>>

\* the adapter returned: return on error, else append the member
zar_Extract_append ==
    /\ reader = "ZAR" /\ pc = "append"
    /\ IF IsError(adRet.err)
       THEN /\ Return(allFiles, Wrap("ZAR: processing data for member", adRet.err))
            /\ UNCHANGED <<allFiles, payloadOff>>
       ELSE /\ allFiles' = Append(allFiles,
                  ExtractedFileData(entries[Len(allFiles) + 1].fn, adRet.data,
                                    entries[Len(allFiles) + 1].cSize, Len(adRet.data), <<>>))
            /\ payloadOff' = Append(payloadOff, ad.start)
            /\ pc' = "payload"
            /\ UNCHANGED <<results, err>>
    /\ UNCHANGED <<inputVars, mainVars, offset, detectVars, processedAnyFile, mem, versionStr,
                   ad, adRet, blastReader, zar, entries>>

----------------------------------------------------------------------------
(* A second call of extract in the same process                            *)

\* the other call works on its own stream and its own locals: extract and
\* the readers keep no state outside the call, and Signatures is only read.
\* It runs to its return as long as the process is alive: os.Exit ends
\* every goroutine of the process.
peer_return ==
    /\ peer = "running" /\ exitCode = -1
    /\ peer' = "done"
    /\ UNCHANGED <<src, stream, entry, args, registry, pc, offset, mainVars, detectVars,
                   readerVars, results, err>>

----------------------------------------------------------------------------
(* The specification                                                       *)

Next ==
    \/ main_args
    \/ main_check
    \/ main_write
    \/ extract_detect
    \/ extract_dispatch
    \/ extract_return
    \/ Adapter_read
    \/ Adapter_newReader
    \/ Adapter_decode
    \/ cmz_Extract_magic
    \/ cmz_Extract_metadata
    \/ cmz_Extract_filename
    \/ cmz_Extract_append
    \/ nsk_Extract_magic
    \/ nsk_Extract_metadata
    \/ nsk_Extract_filename
    \/ nsk_Extract_append
    \/ tsc_Extract_filemagic
    \/ tsc_Extract_version
    \/ tsc_Extract_wildcard
    \/ tsc_Extract_header
    \/ tsc_Extract_filename
    \/ tsc_Extract_append
    \/ zar_Extract_size
    \/ zar_Extract_trailer
    \/ zar_Extract_entry
    \/ zar_Extract_scan
    \/ zar_Extract_check
    \/ zar_Extract_name
    \/ zar_Extract_reverse
    \/ zar_Extract_payload
    \/ zar_Extract_append
    \/ peer_return

Spec == Init /\ [][Next]_vars

\* the process runs on while it has a step to take
FairSpec == Spec /\ WF_vars(Next)

\* the call is over: it returned, or the process exited
Terminated == pc \in {"done", "exited", "main_done"}

----------------------------------------------------------------------------
(* What the archive recipes promise: the reference the claims compare the  *)
(* program's results with                                                  *)

SeqKinds == {"CMZ", "NSK"}
Returned == pc = "done"

\* a member whose payload decodes cleanly to its declared size (0: not declared)
WellFormed(m) ==
    /\ BlastHeaderOK(m.comp) /\ BlastClean(m.comp)
    /\ m.dsize = 0 \/ m.dsize = Len(BlastOutput(m.comp))

AllWellFormed(ms) == \A i \in 1..Len(ms) : WellFormed(ms[i])

\* the file a CMZ / NSK reader owes for member m
ExpectedSeqFile(m) ==
    ExtractedFileData(m.name, BlastOutput(m.comp), Len(m.comp), m.dsize, <<>>)

ExpectedSeqFiles(ms, k) == [i \in 1..k |-> ExpectedSeqFile(ms[i])]

\* a name the ZAR format can hold and whose bytes cannot pass for a length byte
PlainName(nm) == Len(nm) <= 12 /\ \A i \in 1..Len(nm) : nm[i] < 128

\* the sum of the compressed sizes of the members before the i-th
PayloadStart(ms, i) == SumSeq([j \in 1..(i - 1) |-> Len(ms[j].comp)])

----------------------------------------------------------------------------
(* Claims                                                                  *)

\* C1 (as claimed): for a stream detected as CMZ, NSK, TSC or ZAR, when the
\* call is over and the reader did not succeed, extract has returned: a
\* non-nil error together with exactly the members the reader had appended
\* (none when it failed before the first).
C1_PartialResultContract ==
    (entry = "extract" /\ reader \in FileTypes /\ Terminated
        /\ ~(pc = "done" /\ ~IsError(err)))
    => (pc = "done" /\ IsError(err) /\ results = allFiles)

\* C2: a CMZ or NSK stream of exactly K >= 1 well-formed members and nothing
\* else yields K results and a nil error; the i-th result has the name, the
\* compressed size, the declared decompressed size and the decompressed
\* payload of the i-th member.
C2_AllMembersInOrder ==
    (reader \in SeqKinds /\ src.kind = reader /\ Returned
        /\ src.trunc = 0 /\ src.tail = <<>>
        /\ Len(src.members) >= 1 /\ AllWellFormed(src.members))
    => (/\ ~IsError(err)
        /\ results = ExpectedSeqFiles(src.members, Len(src.members)))

C2_Witness ==
    /\ reader \in SeqKinds /\ src.kind = reader /\ Returned
    /\ src.trunc = 0 /\ src.tail = <<>>
    /\ Len(src.members) = 2 /\ AllWellFormed(src.members)
    /\ src.members[1].name # src.members[2].name
    /\ Len(results) = 2

\* C3: when the last of K well-formed members of a CMZ or NSK stream lacks
\* the final byte of its payload, the reader returns the first K-1 members
\* and the error of reading compressed data.
C3_TruncatedPayload ==
    (reader \in SeqKinds /\ src.kind = reader /\ Returned
        /\ src.trunc = 1 /\ Len(src.members) >= 1 /\ AllWellFormed(src.members))
    => (/\ IsError(err)
        /\ \E i \in 1..Len(err.msg) : err.msg[i] = "reading compressed data"
        /\ results = ExpectedSeqFiles(src.members, Len(src.members) - 1))

C3_Witness ==
    /\ reader \in SeqKinds /\ src.kind = reader /\ Returned
    /\ src.trunc = 1 /\ Len(src.members) = 2 /\ AllWellFormed(src.members)
    /\ Len(results) = 1 /\ IsError(err)

\* C4: in the CMZ and NSK readers, a magic read at the end of the stream
\* (zero bytes read) returns; it returns the members with a nil error if and
\* only if at least one member was parsed, and an empty list with an error
\* when none was.
C4_CleanEndNeedsMember ==
    [][ (reader \in SeqKinds /\ pc = "magic" /\ pc' # pc /\ Avail(stream, offset) = 0)
        => (/\ pc' \in {"extract_ret", "done"}
            /\ results' = allFiles
            /\ ~IsError(err') <=> Len(allFiles) >= 1
            /\ Len(allFiles) = 0 => (results' = <<>> /\ IsError(err'))) ]_vars

C4_Witness ==
    /\ reader \in SeqKinds /\ Returned /\ ~IsError(err)
    /\ Len(results) >= 1 /\ offset = Len(stream)

C6_UnknownIsTerminal ==
    (entry = "extract" /\ fileType = "Unknown" /\ pc # "dispatch")
    => (/\ pc = "done"
        /\ results = <<>>
        /\ err = Errorf("unknown file type")
        /\ reader = "none" /\ offset = 0 /\ allFiles = <<>>
        /\ blastReader.opened = 0 /\ entries = <<>>)

C6_Witness == entry = "extract" /\ fileType = "Unknown" /\ pc = "done"

\* the order the signatures are probed in
ProbeOrder == <<"CMZ", "NSK", "TSC", "ZAR">>

\* the first format in probe order whose signature starts the window
FirstMatch(w) ==
    IF \E i \in 1..4 : HasPrefix(w, Signatures[ProbeOrder[i]])
    THEN ProbeOrder[CHOOSE i \in 1..4 :
            /\ HasPrefix(w, Signatures[ProbeOrder[i]])
            /\ \A j \in 1..(i - 1) : ~HasPrefix(w, Signatures[ProbeOrder[j]])]
    ELSE "Unknown"

AllZero(w) == \A i \in 1..Len(w) : w[i] = 0

\* C7: detection on the header window returns the first format, in the order
\* CMZ, NSK, TSC, ZAR, whose signature is a prefix of the window; a window
\* that is all zero, empty or shorter than every signature gives Unknown;
\* and a stream that is all zero or shorter than every signature is
\* detected as Unknown by extract.
C7_HeaderDetection ==
    (entry = "extract" /\ fileType # "none")
    => (/\ header = SubSeq(stream, 1, Len(header))
        /\ DetermineFileType(header) = FirstMatch(header)
        /\ (AllZero(header) \/ \A t \in FileTypes : Len(header) < Len(Signatures[t]))
           => DetermineFileType(header) = "Unknown"
        /\ (AllZero(stream) \/ \A t \in FileTypes : Len(stream) < Len(Signatures[t]))
           => fileType = "Unknown"
        /\ DetermineFileType(header) # "Unknown" => fileType = DetermineFileType(header))

C7_Witness ==
    /\ entry = "extract" /\ fileType = "Unknown" /\ header = <<67, 108, 97, 120, 0>>

\* C8: a ZAR archive whose first bytes match no signature and whose last
\* three bytes are the ZAR magic is detected as ZAR and handed to the ZAR
\* reader; the footer window is empty, and detection rests on the header
\* alone, when the stream is shorter than the longest signature.
C8_FooterDetection ==
    (entry = "extract" /\ fileType # "none")
    => (/\ (src.kind = "ZAR" /\ src.tail = <<>> /\ DetermineFileType(header) = "Unknown")
           => (fileType = "ZAR" /\ (pc # "dispatch" => reader = "ZAR"))
        /\ Len(stream) < MaxSignatureLength
           => (footer = <<>> /\ fileType = DetermineFileType(header))
        /\ Len(stream) >= MaxSignatureLength
           => footer = SubSeq(stream, Len(stream) - MaxSignatureLength + 1, Len(stream)))

C8_Witness ==
    /\ entry = "extract" /\ src.kind = "ZAR" /\ src.tail = <<>>
    /\ Len(src.members) >= 1
    /\ DetermineFileType(header) = "Unknown" /\ fileType = "ZAR"
    /\ reader = "ZAR" /\ pc = "done"

\* C9: the ZAR reader's results are in archive order: for a directory
\* written forward as entries e_1..e_n, the i-th result has the name and
\* the compressed size of e_i, and its payload is the compressedSize_i bytes
\* at the offset that is the sum of the sizes before it; when the names hold
\* no byte of 0x80 or more and every payload decodes, all n >= 1 are
\* returned.
C9_ArchiveOrder ==
    (reader = "ZAR" /\ src.kind = "ZAR" /\ Returned)
    => LET ms == src.members
       IN  /\ Len(results) <= Len(ms)
           /\ \A i \in 1..Len(results) :
                /\ results[i].Filename = ms[i].name
                /\ results[i].CompressedSize = Len(ms[i].comp)
                /\ payloadOff[i] = PayloadStart(ms, i)
                /\ results[i].Data =
                     BlastOutput(SubSeq(stream, payloadOff[i] + 1,
                                        payloadOff[i] + results[i].CompressedSize))
           /\ (Len(ms) >= 1 /\ \A i \in 1..Len(ms) : PlainName(ms[i].name) /\ WellFormed(ms[i]))
              => (~IsError(err) /\ Len(results) = Len(ms))

C9_Witness ==
    /\ reader = "ZAR" /\ src.kind = "ZAR" /\ Returned /\ ~IsError(err)
    /\ Len(results) = 2
    /\ results[1].Filename = <<65>> /\ results[2].Filename = <<66, 66>>
    /\ payloadOff = <<0, 3>>

\* C10 (as claimed): once the backward scan has decoded a name length above
\* 12, the ZAR Extract returns an error and no file to its caller.
C10_LongNameIsAnError ==
    (reader = "ZAR" /\ zar.e.fnSize > zarMaxNameLen /\ pc \notin {"scan", "check"})
    => (pc \in {"extract_ret", "done"} /\ IsError(err) /\ results = <<>>)

\* the last 3 bytes of the stream are the ZAR magic
HasZARTrailer == HasSuffix(stream, Signatures["ZAR"])

\* C11 (as claimed): when the last 3 bytes of the stream are not 'PT&', the
\* ZAR reader decodes no directory entry and returns an error and no member.
C11_TrailerVerified ==
    (reader = "ZAR" /\ ~HasZARTrailer)
    => (/\ entries = <<>> /\ zar.e = NoEntry
        /\ pc \in {"extract_ret", "done"} => (IsError(err) /\ results = <<>>))

\* the sum of the compressed sizes of the entries decoded so far
RECURSIVE TotalDataSize(_)
TotalDataSize(es) ==
    IF es = <<>> THEN 0 ELSE Clip(es[1].cSize + TotalDataSize(Tail(es)))

\* the states of the directory walk and of the reversal that follows it
ZARWalk == {"size", "trailer", "entry", "scan", "check", "name"}

\* C12 (as claimed): the ZAR walk goes on to another entry only while the
\* sum of the decoded compressed sizes is below the offset where the entry
\* decoded last begins.
C12_StopAtOrPastPosition ==
    (reader = "ZAR" /\ pc \in {"entry", "scan", "check", "name"} /\ entries # <<>>)
    => TotalDataSize(entries) < entries[Len(entries)].fnLenOff

\* C13: in the ZAR reader, while the directory is rebuilt and reversed no
\* payload byte is read and no decoder is made; a return out of that phase
\* carries an error and no member; and the payloads are read only once the
\* walk has counted the whole file and the list has been reversed, the list
\* staying as it is from then on.
C13_DirectoryBeforePayload ==
    /\ [](reader = "ZAR" =>
            /\ pc \in ZARWalk \cup {"reverse", "exited"}
               => (/\ allFiles = <<>> /\ payloadOff = <<>>
                   /\ blastReader.opened = 0
                   /\ ad.compressedData = <<>> /\ adRet.data = <<>>)
            /\ pc \in {"payload", "ad_read", "ad_new", "ad_decode", "append"}
               => (/\ zar.bytesRead = zar.fSize
                   /\ \A i \in 1..Len(entries) : \A j \in 1..Len(entries) :
                        i < j => entries[i].fnLenOff < entries[j].fnLenOff))
    /\ [][reader = "ZAR" =>
            /\ (pc \in ZARWalk /\ pc' \in {"extract_ret", "done"})
               => (IsError(err') /\ results' = <<>>)
            /\ (pc' = "payload" /\ pc \in ZARWalk \cup {"reverse"}) => pc = "reverse"
            /\ pc \in {"payload", "ad_read", "ad_new", "ad_decode", "append"}
               => entries' = entries]_vars

C13_Witness ==
    /\ reader = "ZAR" /\ pc = "ad_decode" /\ Len(entries) = 2
    /\ Len(allFiles) = 1 /\ zar.bytesRead = zar.fSize

\* the adapter has returned to the reader that called it
AdapterReturned == pc = "append"

\* the adapter's call got as far as making a decoder
DecoderMade ==
    Len(ad.compressedData) = ad.compSize /\ BlastHeaderOK(ad.compressedData)

AdapterSteps == Adapter_read \/ Adapter_newReader \/ Adapter_decode

\* C14: a call of the adapter with expected size N > 0 returns either
\* exactly N bytes and no error or an error and no data; when the decoder
\* yields only M < N bytes the error carries M and N; and every step of the
\* call can be taken, up to its return.
C14_ExactSizeOrError ==
    /\ (AdapterReturned /\ ad.decompSize > 0)
       => (/\ \/ ~IsError(adRet.err) /\ Len(adRet.data) = ad.decompSize
              \/ IsError(adRet.err) /\ adRet.data = <<>>
           /\ (DecoderMade /\ Len(BlastOutput(ad.compressedData)) < ad.decompSize)
              => (/\ IsError(adRet.err)
                  /\ adRet.err.n = Len(BlastOutput(ad.compressedData))
                  /\ adRet.err.want = ad.decompSize)
           /\ (DecoderMade /\ Len(BlastOutput(ad.compressedData)) >= ad.decompSize)
              => (/\ ~IsError(adRet.err)
                  /\ adRet.data = SubSeq(BlastOutput(ad.compressedData), 1, ad.decompSize)))
    /\ pc \in {"ad_read", "ad_new", "ad_decode"} => ENABLED AdapterSteps

C14_Witness ==
    /\ AdapterReturned /\ ad.decompSize = 2 /\ DecoderMade
    /\ IsError(adRet.err) /\ adRet.err.n = 1 /\ adRet.err.want = 2

\* C15: a call of the adapter with expected size 0 whose decoder reaches its
\* end of stream returns every byte the decoder produced and no error,
\* whatever their number; when the decoder fails first it returns an error
\* and no data.
C15_ReadToEnd ==
    (AdapterReturned /\ ad.decompSize = 0 /\ DecoderMade)
    => IF BlastClean(ad.compressedData)
       THEN ~IsError(adRet.err) /\ adRet.data = BlastOutput(ad.compressedData)
       ELSE IsError(adRet.err) /\ adRet.data = <<>>

C15_Witness ==
    /\ AdapterReturned /\ ad.decompSize = 0 /\ DecoderMade
    /\ ~IsError(adRet.err) /\ Len(adRet.data) = 2

\* C16: a decoder is open only between its construction and the return of
\* the adapter call that made it; that return closes it, once, whether the
\* decode succeeded, came out short or failed before the end of stream; and
\* nothing else opens or closes a decoder.
C16_DecoderClosedOnce ==
    /\ [](/\ pc = "ad_decode"
             => (blastReader.open /\ blastReader.opened = blastReader.closed + 1)
          /\ pc # "ad_decode"
             => (~blastReader.open /\ blastReader.opened = blastReader.closed))
    /\ [][/\ (pc = "ad_decode" /\ pc' # pc)
             => (/\ pc' = "append"
                 /\ blastReader'.closed = blastReader.closed + 1
                 /\ blastReader'.opened = blastReader.opened)
          /\ blastReader'.closed # blastReader.closed => pc = "ad_decode"
          /\ blastReader'.opened # blastReader.opened
             => (pc = "ad_new" /\ pc' = "ad_decode"
                 /\ blastReader'.opened = blastReader.opened + 1)]_vars

C16_Witness ==
    /\ AdapterReturned /\ DecoderMade /\ IsError(adRet.err)
    /\ blastReader.opened = 2 /\ blastReader.closed = 2 /\ ~blastReader.open

\* the version string a TSC recipe of version <<major, minor>> stands for
ExpectedVersion(ver) == Decimal(ver[1]) \o <<46>> \o Decimal(ver[2])

\* C17: in the TSC reader the file header steps (magic, version, wildcard
\* and reserved bytes) run once, in order, before the member loop; the
\* version string is not changed after that; and every member appended or
\* returned carries the version string of the file header.
C17_OneHeaderOneVersion ==
    /\ [](reader = "TSC" =>
            /\ \A i \in 1..Len(allFiles) :
                 /\ allFiles[i].Version = versionStr
                 /\ src.kind = "TSC" => allFiles[i].Version = ExpectedVersion(src.ver)
            /\ pc \in {"extract_ret", "done"} => results = allFiles)
    /\ [][reader = "TSC" =>
            /\ pc # "version" => versionStr' = versionStr
            /\ pc' # pc =>
                 /\ pc' # "filemagic"
                 /\ pc' = "version" => pc = "filemagic"
                 /\ pc' = "wildcard" => pc = "version"
                 /\ pc' = "header" => pc \in {"wildcard", "append"}]_vars

C17_Witness ==
    /\ reader = "TSC" /\ Returned /\ Len(results) = 2
    /\ results[1].Version = <<50, 46, 53, 49, 51>>
    /\ results[2].Version = <<50, 46, 53, 49, 51>>

\* the bytes of a TSC file before its first member
TSCFileHeaderLen == Len(Signatures["TSC"]) + 3 + 1 + 4

\* the offset of the payload of the i-th member of a TSC recipe
TSCPayloadStart(ms, i) ==
    TSCFileHeaderLen
    + SumSeq([j \in 1..(i - 1) |-> 16 + Len(ms[j].name) + 1 + Len(ms[j].comp)])
    + 16 + Len(ms[i].name) + 1

\* C18: for a TSC archive, the i-th member appended has the compressed size
\* stored at offset 1 and the name of nameLength+1 bytes (terminator
\* included) of the i-th member header; its payload starts right after
\* that name and is compressedSize bytes long; the adapter is called with
\* expected size 0; and the recorded decompressed size is the length of the
\* data.  An archive of whole members with decodable payloads is returned in
\* full.
C18_TSCMemberDecoding ==
    (reader = "TSC" /\ src.kind = "TSC")
    => LET ms == src.members
       IN  /\ Len(allFiles) <= Len(ms)
           /\ ad.decompSize = 0
           /\ \A i \in 1..Len(allFiles) :
                /\ allFiles[i].CompressedSize = Len(ms[i].comp)
                /\ allFiles[i].Filename = ms[i].name \o <<0>>
                /\ payloadOff[i] = TSCPayloadStart(ms, i)
                /\ allFiles[i].Data = BlastOutput(ms[i].comp)
                /\ allFiles[i].DecompressedSize = Len(allFiles[i].Data)
           /\ (pc = "header" /\ allFiles # <<>>)
              => offset = payloadOff[Len(allFiles)] + allFiles[Len(allFiles)].CompressedSize
           /\ (/\ pc \in {"extract_ret", "done"}
               /\ src.trunc = 0 /\ src.tail = <<>> /\ AllWellFormed(ms))
              => (~IsError(err) /\ Len(results) = Len(ms))

C18_Witness ==
    /\ reader = "TSC" /\ src.kind = "TSC" /\ pc = "header" /\ Len(allFiles) = 2
    /\ allFiles[1].Filename = <<65, 0>> /\ allFiles[2].Filename = <<0>>
    /\ allFiles[2].DecompressedSize = 2

\* C19 (as claimed): the TSC reader does not return an empty list without
\* an error: a valid file header followed by no member is an error.
C19_EmptyTSCIsAnError ==
    (reader = "TSC" /\ pc \in {"extract_ret", "done"} /\ results = <<>>)
    => IsError(err)

\* the process has ended
ProcessOver == pc \in {"main_done", "exited"}

\* C20 (as claimed): when a run of main is over, its exit status is nonzero
\* exactly when the argument count was wrong or extract returned an error
\* and no file, and otherwise 0; and after an error that came with files the
\* error was reported and a write of every file was attempted, in order.
C20_ExitStatus ==
    (entry = "main" /\ ProcessOver)
    => (/\ exitCode \in {0, 1}
        /\ exitCode # 0 <=> (Len(args) # 1 \/ (IsError(err) /\ results = <<>>))
        /\ (IsError(err) /\ results # <<>>)
           => (/\ reported /\ Len(written) = Len(results)
               /\ \A i \in 1..Len(written) :
                    written[i].index = i - 1 /\ written[i].data = results[i].Data))

\* the base name of the archive "a.z": "a"
ArchiveBaseName == <<97>>

\* the number of nameless files among the first k recovered files
RECURSIVE Nameless(_, _)
Nameless(files, k) ==
    IF k = 0 THEN 0
    ELSE Nameless(files, k - 1) + (IF files[k].Filename = <<>> THEN 1 ELSE 0)

\* C21 (as claimed): a file with a stored name is written under it; a
\* nameless file is written as "<base>_<index>", and as the bare "<base>"
\* when it is the only nameless file among the recovered files.
C21_BareNameForOnlyNameless ==
    (entry = "main" /\ args = <<ArchiveName>>)
    => \A k \in 1..Len(written) :
         written[k].name =
           IF results[k].Filename # <<>> THEN results[k].Filename
           ELSE IF Nameless(results, Len(results)) = 1 THEN ArchiveBaseName
           ELSE ArchiveBaseName \o <<95>> \o Decimal(Nameless(results, k - 1))

\* C22 (as claimed): no step of one extract call keeps another call of the
\* same process from completing: the process never ends while the other
\* call is still running.
C22_PeerRunsToCompletion == ~(exitCode # -1 /\ peer = "running")

\* the (name, compressed size) pairs of a directory
Pairs(es) == [i \in 1..Len(es) |-> <<es[i].fn, es[i].cSize>>]
WrittenPairs(ms) == [i \in 1..Len(ms) |-> <<ms[i].name, Len(ms[i].comp)>>]

\* C23: for a ZAR archive of n >= 1 entries whose names have 0..12 bytes, all
\* below 0x80, each written as [0x80 + nameLength][name][compressedSize LE32]
\* after the payloads and followed by a 7-byte trailer ending in 'PT&', the
\* directory walk never ends the process and never fails, and the directory
\* it reconstructs is exactly the written sequence of (name, compressedSize)
\* pairs.
C23_DirectoryRoundTrip ==
    (/\ reader = "ZAR" /\ src.kind = "ZAR" /\ src.tail = <<>>
     /\ Len(src.members) >= 1
     /\ \A i \in 1..Len(src.members) : PlainName(src.members[i].name))
    => /\ pc # "exited"
       /\ pc \notin (ZARWalk \cup {"reverse"})
          => Pairs(entries) = WrittenPairs(src.members)

C23_Witness ==
    /\ reader = "ZAR" /\ src.kind = "ZAR" /\ src.tail = <<>> /\ pc = "payload"
    /\ Pairs(entries) = << <<<<>>, 3>>, <<Rep(68, 12), 3>> >>

\* the last entry of the directory
LastEntry(es) == es[Len(es)]

\* C25: a step of the backward filename scan reads the byte b before the
\* cursor; it ends the scan exactly when b - 0x80 is the number of bytes
\* scanned before it for this entry, so b is the first such byte and is
\* 0x80 or more; that number becomes the name length, the offset of b the
\* name-length offset, and the name is the nameLength bytes that start one
\* past b.
C25_SentinelScan ==
    [][ /\ (reader = "ZAR" /\ pc = "scan" /\ offset' = offset - 1)
           => LET b == stream[offset]
                  scanned == zar.pos - offset
              IN  /\ (pc' = "check") <=> (b - 128 = scanned)
                  /\ \A j \in (offset + 1)..zar.pos : stream[j] - 128 # zar.pos - j
                  /\ pc' = "check"
                     => /\ b >= 128
                        /\ zar'.e.fnSize = scanned
                        /\ zar'.e.fnLenOff = offset - 1
                        /\ zar'.e.fnOff = zar'.e.fnLenOff + 1
        /\ (reader = "ZAR" /\ pc = "name" /\ pc' # "name")
           => LastEntry(entries').fn =
                SubSeq(stream, zar.e.fnLenOff + 2, zar.e.fnLenOff + 1 + zar.e.fnSize)
      ]_vars

C25_Witness ==
    /\ reader = "ZAR" /\ pc = "payload" /\ Len(entries) = 1
    /\ entries[1].fn = <<130, 0>> /\ entries[1].fnSize = 2
    /\ stream[entries[1].fnLenOff + 1] = 130

\* C24: a metadata read that succeeds consumes the whole block, 16 bytes for
\* CMZ and 14 for NSK, and decodes the member's compressed size (LE32 at 0),
\* decompressed size (LE32 at 4 for CMZ, at 9 for NSK) and name length (the
\* byte at 12 for CMZ, at 13 for NSK) as they were written, whatever the
\* reserved bytes of the block hold.
C24_MetadataDecoding ==
    [][ \A r \in SeqKinds :
          (reader = r /\ src.kind = r /\ pc = "meta" /\ pc' = "name")
          => LET m == src.members[Len(allFiles) + 1]
             IN  /\ mem'.compSize = Len(m.comp)
                 /\ mem'.decompSize = m.dsize
                 /\ mem'.fnSize = Len(m.name)
                 /\ offset' = offset + (IF r = "CMZ" THEN 16 ELSE 14)
                 /\ stream[offset + (IF r = "CMZ" THEN 9 ELSE 5)] = src.rsv
      ]_vars

C24_Witness ==
    /\ reader = "NSK" /\ src.kind = "NSK" /\ pc = "name" /\ src.rsv = 170
    /\ allFiles = <<>> /\ src.members[1].name = <<65>>
    /\ mem.compSize = 4 /\ mem.decompSize = 2 /\ mem.fnSize = 1
    /\ offset = Len(Signatures["NSK"]) + 14

\* every signature is non-empty, and no signature is another one or the
\* start of another one
PrefixFree(S) ==
    /\ \A t \in FileTypes : Len(S[t]) >= 1
    /\ \A t, u \in FileTypes : t # u => (S[t] # S[u] /\ ~HasPrefix(S[u], S[t]))

\* the orders the four signatures can be probed in
ProbeOrders == { p \in [1..4 -> FileTypes] : \A i, j \in 1..4 : p[i] = p[j] => i = j }

\* detection that probes the signatures in the order p
DetectIn(p, w) ==
    IF \E i \in 1..4 : HasPrefix(w, registry[p[i]])
    THEN p[CHOOSE i \in 1..4 :
            /\ HasPrefix(w, registry[p[i]])
            /\ \A j \in 1..(i - 1) : ~HasPrefix(w, registry[p[j]])]
    ELSE "Unknown"

\* C26: every signature of the registry (and of the older registry) is
\* non-empty, the four are pairwise distinct and none is the start of
\* another; at most one of them starts
\* the header window (or the stream), and detection on it gives the same
\* format whatever the order the signatures are probed in; no step changes
\* the registry.
C26_RegistryInvariant ==
    /\ [](/\ PrefixFree(registry)
          /\ PrefixFree(SignaturesOld)
          /\ \A w \in {header, stream} :
               /\ Cardinality({t \in FileTypes : HasPrefix(w, registry[t])}) <= 1
               /\ \A p \in ProbeOrders : DetectIn(p, w) = DetermineFileType(w))
    /\ [][registry' = registry]_vars

C26_Witness ==
    /\ entry = "extract" /\ pc = "done" /\ fileType = "TSC"
    /\ Cardinality({t \in FileTypes : HasPrefix(header, registry[t])}) = 1
    /\ registry = Signatures

\* a step of the ZAR walk
WalkStep == reader = "ZAR" /\ pc \in ZARWalk /\ <<pc, offset, zar>>' # <<pc, offset, zar>>

\* C27: the backward walk of the ZAR reader ends on every stream: it goes on
\* to the payloads, returns an error, or ends the process. A step of the
\* filename scan moves the cursor back by exactly one byte and goes on or
\* stops at the length byte, and at offset 0 it returns an error; reading a
\* size moves the cursor back by four bytes, or returns an error when fewer
\* than four precede it; and an iteration that goes on to another entry
\* leaves the cursor before the place where it started.
C27_WalkTerminates ==
    /\ [][ /\ (WalkStep /\ pc = "scan")
               => IF offset = 0
                  THEN pc' \in {"extract_ret", "done"} /\ IsError(err') /\ results' = <<>>
                  ELSE offset' = offset - 1 /\ pc' \in {"scan", "check"}
            /\ (WalkStep /\ pc = "entry")
               => IF offset < 4
                  THEN pc' \in {"extract_ret", "done"} /\ IsError(err') /\ results' = <<>>
                  ELSE offset' = offset - 4 /\ pc' = "scan"
            /\ (WalkStep /\ pc = "name" /\ pc' = "entry")
               => /\ offset' = zar.e.fnLenOff
                  /\ offset' < (IF entries = <<>> THEN zar.fSize - zarFooterLen
                                ELSE LastEntry(entries).fnLenOff)
          ]_vars
    /\ (reader = "ZAR" /\ pc \in ZARWalk) ~> (pc \notin ZARWalk)

C27_Witness ==
    /\ reader = "ZAR" /\ pc = "done" /\ offset = 0 /\ entries # <<>>
    /\ IsError(err) /\ Cause(err) = "negative position"

\* C28 (as claimed): every file a reader has appended to its results has a
\* decompressed size equal to the length of its data, the CMZ and NSK
\* members that declare a decompressed size of 0 included.
C28_SizeMatchesData ==
    \A i \in 1..Len(allFiles) : allFiles[i].DecompressedSize = Len(allFiles[i].Data)

\* the bytes the appended members took from the stream: for each, the
\* magic, the metadata block, the name and the payload
ConsumedBy(files, r) ==
    SumSeq([i \in 1..Len(files) |->
              Len(registry[r]) + MetadataLen(r) + Len(files[i].Filename)
              + files[i].CompressedSize])

\* C29: whenever the CMZ or NSK loop is about to read a member magic, the
\* stream offset is the sum over the appended members of magic length +
\* metadata block length + name length + compressed size, and a member has
\* been appended exactly when processedAnyFile is set; reading a name of
\* length 0 moves the offset by nothing and is no error; and the adapter
\* takes at most compressedSize bytes from the stream, all of them in its
\* one read, none while decoding.
C29_CursorInvariant ==
    /\ []((reader \in SeqKinds /\ pc = "magic")
          => /\ offset = ConsumedBy(allFiles, reader)
             /\ (Len(allFiles) >= 1) <=> processedAnyFile)
    /\ [][ (reader \in SeqKinds) =>
            /\ (pc = "name" /\ pc' # pc /\ mem.fnSize = 0)
               => (offset' = offset /\ pc' = "ad_read" /\ mem'.originalFilename = <<>>)
            /\ (pc = "ad_read" /\ pc' # pc)
               => (/\ offset' <= offset + ad.compSize
                   /\ pc' = "ad_new" => offset' = offset + ad.compSize)
            /\ pc \in {"ad_new", "ad_decode", "append"} => offset' = offset ]_vars

C29_Witness ==
    /\ reader = "NSK" /\ pc = "magic" /\ Len(allFiles) = 2 /\ processedAnyFile
    /\ allFiles[1].Filename = <<>> /\ allFiles[2].Filename = <<65>>
    /\ offset = Len(stream) /\ offset = ConsumedBy(allFiles, "NSK")

\* the directory walk has succeeded: the reader is past it, in the payload
\* pass or returned without error
Reconstructed ==
    /\ reader = "ZAR"
    /\ \/ pc \in {"reverse", "payload", "ad_read", "ad_new", "ad_decode", "append"}
       \/ pc \in {"extract_ret", "done"} /\ ~IsError(err)

\* the offset where the directory starts: the lowest name-length offset
DirectoryStart(es) ==
    CHOOSE d \in {es[i].fnLenOff : i \in 1..Len(es)} :
        \A i \in 1..Len(es) : d <= es[i].fnLenOff

\* C30: once the ZAR directory walk has succeeded with entries e_1..e_n,
\* 7 + the sum of (1 + nameLength_i + 4 + compressedSize_i) is the stream
\* length and every nameLength_i is in 0..12; so the directory starts at
\* the sum of the compressed sizes, every payload read lies below it, the
\* cursor of the payload pass never passes it, and a return without error
\* leaves the cursor exactly there.
C30_ExactAccounting ==
    Reconstructed
    => /\ entries # <<>>
       /\ zarFooterLen
          + SumSeq([i \in 1..Len(entries) |->
                     1 + entries[i].fnSize + 4 + entries[i].cSize]) = Len(stream)
       /\ \A i \in 1..Len(entries) : entries[i].fnSize \in 0..zarMaxNameLen
       /\ DirectoryStart(entries) = SumSeq([i \in 1..Len(entries) |-> entries[i].cSize])
       /\ offset <= DirectoryStart(entries)
       /\ \A i \in 1..Len(allFiles) :
            payloadOff[i] + allFiles[i].CompressedSize <= DirectoryStart(entries)
       /\ pc \in {"extract_ret", "done"}
          => (offset = DirectoryStart(entries) /\ Len(results) = Len(entries))

C30_Witness ==
    /\ Reconstructed /\ pc = "done" /\ Len(entries) = 2
    /\ entries[1].fnSize = 0 /\ entries[2].fnSize = zarMaxNameLen
    /\ offset = entries[1].fnLenOff /\ offset > 0

====
